---- MODULE Spec2Model ----
(***************************************************************************)
(* Billing time calculator: the calculation engine of                      *)
(* billing_calculator.py (BillingCalculator and its data classes) and the  *)
(* handlers of the window of main.py that call it (BillingTimeCalcApp);    *)
(* Spec is the window, CallsSpec the caller of test_calculator.py, which   *)
(* calls calculate again and again on one calculator.                      *)
(*                                                                         *)
(* Text is a sequence of one-character strings, so that splitting,         *)
(* trimming, parsing and formatting are computed character by character.   *)
(***************************************************************************)
EXTENDS Integers, Sequences, FiniteSets, TLC

(***************************************************************************)
(* Bounds of the explored inputs                                           *)
(***************************************************************************)
\* the typed end time lies at most MaxBack minutes before the start ...
MaxBack == 3
\* ... and at most MaxDelta minutes after it
MaxDelta == 183
\* the typed start minute ranges over 0..MaxStartMinute
MaxStartMinute == 59
\* a caller of one BillingCalculator makes at most MaxCalls calls of calculate
MaxCalls == 3
\* the hour typed before an AM/PM marker ranges over 0..MaxHour12
MaxHour12 == 13

(***************************************************************************)
(* Python values                                                           *)
(***************************************************************************)
\* Python's None
None == [none |-> TRUE]

\* class NoteType
PROGRESS_NOTE == "progressNote"
CONSULT == "consult"
NoteType == {PROGRESS_NOTE, CONSULT}

(***************************************************************************)
(* Text primitives of Python used by the engine                            *)
(***************************************************************************)
Digits == <<"0", "1", "2", "3", "4", "5", "6", "7", "8", "9">>
LowerLetters == <<"a", "b", "c", "d", "e", "f", "g", "h", "i", "j", "k", "l", "m",
                  "n", "o", "p", "q", "r", "s", "t", "u", "v", "w", "x", "y", "z">>
UpperLetters == <<"A", "B", "C", "D", "E", "F", "G", "H", "I", "J", "K", "L", "M",
                  "N", "O", "P", "Q", "R", "S", "T", "U", "V", "W", "X", "Y", "Z">>

DigitOf == [c \in {Digits[i] : i \in 1..10} |-> (CHOOSE i \in 1..10 : Digits[i] = c) - 1]
UpperOf == [c \in {LowerLetters[i] : i \in 1..26} |->
              UpperLetters[CHOOSE i \in 1..26 : LowerLetters[i] = c]]

IsDigit(c) == c \in DOMAIN DigitOf
DigitVal(c) == DigitOf[c]
IsLetter(c) == c \in DOMAIN UpperOf \/ c \in {UpperLetters[i] : i \in 1..26}
\* \s of the re module
IsSpace(c) == c = " "
\* \w of the re module
IsWordChar(c) == IsDigit(c) \/ IsLetter(c) \/ c = "_"

\* str.upper, one character
UpperChar(c) == IF c \in DOMAIN UpperOf THEN UpperOf[c] ELSE c

\* str.upper
upper(s) == [i \in 1..Len(s) |-> UpperChar(s[i])]

SetMin(S) == CHOOSE x \in S : \A y \in S : x <= y
SetMax(S) == CHOOSE x \in S : \A y \in S : y <= x

\* str.strip
strip(s) ==
    LET kept == {i \in 1..Len(s) : ~IsSpace(s[i])}
    IN  IF kept = {} THEN <<>> ELSE SubSeq(s, SetMin(kept), SetMax(kept))

\* sub in s
contains(sub, s) ==
    \E i \in 1..(Len(s) - Len(sub) + 1) : SubSeq(s, i, i + Len(sub) - 1) = sub

\* s.endswith(suffix)
endswith(s, suffix) ==
    /\ Len(suffix) <= Len(s)
    /\ SubSeq(s, Len(s) - Len(suffix) + 1, Len(s)) = suffix

\* s.split(":")
RECURSIVE split(_, _)
split(s, sep) ==
    LET at == {i \in 1..Len(s) : s[i] = sep}
    IN  IF at = {} THEN <<s>>
        ELSE <<SubSeq(s, 1, SetMin(at) - 1)>>
             \o split(SubSeq(s, SetMin(at) + 1, Len(s)), sep)

\* the value of a run of decimal digits
RECURSIVE DigitsValue(_)
DigitsValue(ds) ==
    IF ds = <<>> THEN 0
    ELSE 10 * DigitsValue(SubSeq(ds, 1, Len(ds) - 1)) + DigitVal(ds[Len(ds)])

\* int of the digits after the sign: they may be grouped by single
\* underscores; anything else is a ValueError
IntOfBody(body, negative) ==
    IF /\ body # <<>>
       /\ \A i \in 1..Len(body) : IsDigit(body[i]) \/ body[i] = "_"
       /\ IsDigit(body[1])
       /\ IsDigit(body[Len(body)])
       /\ \A i \in 1..(Len(body) - 1) : ~(body[i] = "_" /\ body[i + 1] = "_")
    THEN [value |-> IF negative THEN 0 - DigitsValue(SelectSeq(body, IsDigit))
                    ELSE DigitsValue(SelectSeq(body, IsDigit))]
    ELSE [ValueError |-> TRUE]

\* int of a text without surrounding whitespace: one sign is allowed
IntOfStripped(t) ==
    IF t # <<>> /\ t[1] \in {"+", "-"}
    THEN IntOfBody(SubSeq(t, 2, Len(t)), t[1] = "-")
    ELSE IntOfBody(t, FALSE)

\* int(text): surrounding whitespace is dropped
int(text) == IntOfStripped(strip(text))

IsValueError(r) == "ValueError" \in DOMAIN r

\* the decimal digits of a natural number
RECURSIVE str(_)
str(n) == IF n < 10 THEN <<Digits[n + 1]>> ELSE str(n \div 10) \o <<Digits[(n % 10) + 1]>>

\* the format specification 02d, of a natural number
Format02d(n) == IF n < 10 THEN <<"0">> \o str(n) ELSE str(n)

(***************************************************************************)
(* class Time                                                              *)
(***************************************************************************)
Time(h, m) == [hours |-> h, minutes |-> m]

\* mutant: the minutes of the hour are dropped
total_minutes_HoursOnly(t) == t.hours * 60

total_minutes(t) == t.hours * 60 + t.minutes

formatted_string(t) == Format02d(t.hours) \o <<":">> \o Format02d(t.minutes)

from_minutes(minutes) == Time(minutes \div 60, minutes % 60)

(***************************************************************************)
(* class BillingTier, class Warning, class CalculationResult               *)
(***************************************************************************)
BillingTier(calls, min_minutes, max_minutes, actual_minutes) ==
    [calls |-> calls, min_minutes |-> min_minutes,
     max_minutes |-> max_minutes, actual_minutes |-> actual_minutes]

NearNextTier(current_calls, next_calls, minutes_to_next, suggested_end_time) ==
    [warning |-> "NearNextTier", current_calls |-> current_calls,
     next_calls |-> next_calls, minutes_to_next |-> minutes_to_next,
     suggested_end_time |-> suggested_end_time]

StartTimeNotOnHourOrHalfHour(suggested_start_time) ==
    [warning |-> "StartTimeNotOnHourOrHalfHour",
     suggested_start_time |-> suggested_start_time]

CalculationResult(calls, duration, start_time, end_time, warnings, matched_tier, note_type) ==
    [calls |-> calls, duration |-> duration, start_time |-> start_time,
     end_time |-> end_time, warnings |-> warnings,
     matched_tier |-> matched_tier, note_type |-> note_type]

\* raise CalculationError(message)
CalculationError(message) == [error |-> message]

IsError(outcome) == "error" \in DOMAIN outcome
IsResult(outcome) == "calls" \in DOMAIN outcome

(***************************************************************************)
(* class BillingCalculator: constants and tables                           *)
(***************************************************************************)
WARNING_WINDOW_MINUTES == 10
CONSULT_MINIMUM_DURATION == 61
CONSULT_MAXIMUM_DURATION == 180
\* mutant: the progress-note ceiling is the consult ceiling
PROGRESS_NOTE_MAXIMUM_DURATION_AsConsult == CONSULT_MAXIMUM_DURATION
PROGRESS_NOTE_MAXIMUM_DURATION == 165

\* mutant: the 90-minute row is entered with the calls of the 60-minute row
PROGRESS_NOTE_TABLE_RowSlip ==
    << <<30, 24, 3>>, <<45, 36, 4>>, <<60, 48, 5>>, <<75, 60, 6>>, <<90, 72, 5>>,
       <<105, 84, 8>>, <<120, 96, 9>>, <<135, 108, 10>>, <<150, 120, 11>>,
       <<165, 132, 12>> >>

\* (maxMinutes, actualMinutes, calls)
PROGRESS_NOTE_TABLE ==
    << <<30, 24, 3>>, <<45, 36, 4>>, <<60, 48, 5>>, <<75, 60, 6>>, <<90, 72, 7>>,
       <<105, 84, 8>>, <<120, 96, 9>>, <<135, 108, 10>>, <<150, 120, 11>>,
       <<165, 132, 12>> >>

\* mutant: the second row starts one minute late, 72 minutes match no row
CONSULT_TABLE_Gap ==
    << <<61, 71, 1>>, <<73, 86, 2>>, <<87, 101, 3>>, <<102, 116, 4>>,
       <<117, 131, 5>>, <<132, 146, 6>>, <<147, 161, 7>>, <<162, 176, 8>>,
       <<177, 180, 9>> >>

\* (minMinutes, maxMinutes, calls)
CONSULT_TABLE ==
    << <<61, 71, 1>>, <<72, 86, 2>>, <<87, 101, 3>>, <<102, 116, 4>>,
       <<117, 131, 5>>, <<132, 146, 6>>, <<147, 161, 7>>, <<162, 176, 8>>,
       <<177, 180, 9>> >>

\* the messages of the errors calculate raises
InvalidFormat == "Invalid format. Use HH:MM-HH:MM or HH:MM to HH:MM, or 12h format (e.g., 09:00-10:30, 09:00 to 10:30, 9:00 AM to 10:30 AM)"
InvalidTime == "Invalid time values. Use 24h format (00:00-23:59 or 0000-2359) or 12h format (1:00 AM-11:59 PM, with or without colons)"
StartAfterEnd == "Start time must be before end time"
BelowConsultMinimum == "Consult notes require a duration that matches the billing table (61-180 minutes)"
DurationExceedsMaximum == "Duration exceeds maximum"
NoMatchingConsultTier == "Consult notes require a duration that matches the billing table (61-180 minutes)"

(***************************************************************************)
(* BillingCalculator.get_billing_table                                     *)
(***************************************************************************)
get_billing_table(note_type) ==
    IF note_type = PROGRESS_NOTE
    THEN [i \in 1..Len(PROGRESS_NOTE_TABLE) |->
            BillingTier(PROGRESS_NOTE_TABLE[i][3], None,
                        PROGRESS_NOTE_TABLE[i][1], PROGRESS_NOTE_TABLE[i][2])]
    ELSE [i \in 1..Len(CONSULT_TABLE) |->
            BillingTier(CONSULT_TABLE[i][3], CONSULT_TABLE[i][1],
                        CONSULT_TABLE[i][2], None)]

(***************************************************************************)
(* Regular expressions of the engine                                       *)
(***************************************************************************)
\* the first position at or after k that holds no whitespace (Len(s) + 1 if none)
RunEnd(s, k) == SetMin({j \in k..(Len(s) + 1) : j = Len(s) + 1 \/ ~IsSpace(s[j])})

\* "to" and whitespace at position j (1-based): the position after the
\* whitespace that follows, 0 if there is none
ToAt(s, j) ==
    IF /\ j + 2 <= Len(s)
       /\ UpperChar(s[j]) = "T"
       /\ UpperChar(s[j + 1]) = "O"
       /\ IsSpace(s[j + 2])
    THEN RunEnd(s, j + 2)
    ELSE 0

\* \s+to\s+ matched at position i (1-based): the position after the match, 0 if none
ToMatchEnd(s, i) ==
    IF i <= Len(s) /\ IsSpace(s[i]) THEN ToAt(s, RunEnd(s, i)) ELSE 0

\* the match that starts at position i (1-based), as match.start() and match.end()
MatchAt(s, i, to_end) ==
    IF to_end # 0 THEN [start |-> i - 1, end |-> to_end - 1]
    ELSE [start |-> i - 1, end |-> i]

\* the leftmost of the positions where a match starts
LeftmostMatch(s, at) ==
    IF at = {} THEN None ELSE MatchAt(s, SetMin(at), ToMatchEnd(s, SetMin(at)))

\* mutant: the pattern is to|- , "to" needs no whitespace around it
SeparatorSearch_BareTo(s) ==
    IF \E i \in 1..Len(s) :
          s[i] = "-" \/ (i < Len(s) /\ UpperChar(s[i]) = "T" /\ UpperChar(s[i + 1]) = "O")
    THEN MatchAt(s,
                 SetMin({i \in 1..Len(s) :
                           s[i] = "-" \/ (i < Len(s) /\ UpperChar(s[i]) = "T"
                                          /\ UpperChar(s[i + 1]) = "O")}),
                 IF s[SetMin({i \in 1..Len(s) :
                                s[i] = "-" \/ (i < Len(s) /\ UpperChar(s[i]) = "T"
                                               /\ UpperChar(s[i + 1]) = "O")})] = "-"
                 THEN 0
                 ELSE 2 + SetMin({i \in 1..Len(s) :
                                    s[i] = "-" \/ (i < Len(s) /\ UpperChar(s[i]) = "T"
                                                   /\ UpperChar(s[i + 1]) = "O")}))
    ELSE None

\* re.search(r"\s+to\s+|-", s, re.IGNORECASE): the leftmost match, as the
\* offsets match.start() and match.end(), or None
SeparatorSearch(s) ==
    LeftmostMatch(s, {i \in 1..Len(s) : ToMatchEnd(s, i) # 0 \/ s[i] = "-"})

\* \b at the gap before position p (1-based)
WordBoundary(s, p) ==
    (p > 1 /\ IsWordChar(s[p - 1])) # (p <= Len(s) /\ IsWordChar(s[p]))

\* re.search(r"\b(lit1|lit2)\b", s): match.start() of the leftmost match, or None
MarkerSearch(s, literals) ==
    LET at == {i \in 1..Len(s) : \E lit \in literals :
                  /\ i + Len(lit) - 1 <= Len(s)
                  /\ SubSeq(s, i, i + Len(lit) - 1) = lit
                  /\ WordBoundary(s, i)
                  /\ WordBoundary(s, i + Len(lit))}
    IN  IF at = {} THEN None ELSE [start |-> SetMin(at) - 1]

AM == <<"A", "M">>
PM == <<"P", "M">>
A_M_ == <<"A", ".", "M", ".">>
P_M_ == <<"P", ".", "M", ".">>

(***************************************************************************)
(* BillingCalculator._parse_time                                           *)
(***************************************************************************)
\* the digit part cut into components: at the colons, or a colon-free part of
\* 3 or 4 characters as H MM or HH MM; None for any other length
Components(time_part) ==
    IF contains(<<":">>, time_part) THEN split(time_part, ":")
    ELSE IF Len(time_part) \in {3, 4}
         THEN IF Len(time_part) = 3
              THEN <<SubSeq(time_part, 1, 1), SubSeq(time_part, 2, 3)>>
              ELSE <<SubSeq(time_part, 1, 2), SubSeq(time_part, 3, 4)>>
         ELSE None

\* the 12-hour branch: the marker found in the middle of the text
SplitPeriodInside(trimmed, am_match, pm_match) ==
    IF am_match # None
    THEN [time_part |-> strip(SubSeq(trimmed, 1, am_match.start)), period |-> "AM"]
    ELSE IF pm_match # None
    THEN [time_part |-> strip(SubSeq(trimmed, 1, pm_match.start)), period |-> "PM"]
    ELSE None

\* the 12-hour branch: [time_part, period], or None when no marker is found
SplitPeriod(trimmed) ==
    IF endswith(trimmed, A_M_)
    THEN [time_part |-> strip(SubSeq(trimmed, 1, Len(trimmed) - 4)), period |-> "AM"]
    ELSE IF endswith(trimmed, P_M_)
    THEN [time_part |-> strip(SubSeq(trimmed, 1, Len(trimmed) - 4)), period |-> "PM"]
    ELSE IF endswith(trimmed, AM)
    THEN [time_part |-> strip(SubSeq(trimmed, 1, Len(trimmed) - 2)), period |-> "AM"]
    ELSE IF endswith(trimmed, PM)
    THEN [time_part |-> strip(SubSeq(trimmed, 1, Len(trimmed) - 2)), period |-> "PM"]
    ELSE SplitPeriodInside(trimmed, MarkerSearch(trimmed, {AM, A_M_}),
                           MarkerSearch(trimmed, {PM, P_M_}))

\* mutant: PM leaves the hour as it is written
Convert12_PmUnshifted(hours_12, minutes, period) ==
    IF IsValueError(hours_12) \/ IsValueError(minutes) THEN None
    ELSE IF ~(/\ 1 <= hours_12.value /\ hours_12.value <= 12
              /\ 0 <= minutes.value /\ minutes.value <= 59)
    THEN None
    ELSE IF period = "AM"
    THEN Time(IF hours_12.value = 12 THEN 0 ELSE hours_12.value, minutes.value)
    ELSE Time(hours_12.value, minutes.value)

\* mutant: the range check lets the hour 0 pass
Convert12_AcceptsHourZero(hours_12, minutes, period) ==
    IF IsValueError(hours_12) \/ IsValueError(minutes) THEN None
    ELSE IF ~(/\ 0 <= hours_12.value /\ hours_12.value <= 12
              /\ 0 <= minutes.value /\ minutes.value <= 59)
    THEN None
    ELSE IF period = "AM"
    THEN Time(IF hours_12.value = 12 THEN 0 ELSE hours_12.value, minutes.value)
    ELSE Time(IF hours_12.value = 12 THEN hours_12.value ELSE hours_12.value + 12,
              minutes.value)

\* the 12-hour branch: range check and conversion to 24 hours
Convert12(hours_12, minutes, period) ==
    IF IsValueError(hours_12) \/ IsValueError(minutes) THEN None
    ELSE IF ~(/\ 1 <= hours_12.value /\ hours_12.value <= 12
              /\ 0 <= minutes.value /\ minutes.value <= 59)
    THEN None
    ELSE IF period = "AM"
    THEN Time(IF hours_12.value = 12 THEN 0 ELSE hours_12.value, minutes.value)
    ELSE Time(IF hours_12.value = 12 THEN hours_12.value ELSE hours_12.value + 12,
              minutes.value)

\* the 12-hour branch, from the components on
Parse12Components(components, period) ==
    IF components = None THEN None
    ELSE IF Len(components) # 2 THEN None
    ELSE Convert12(int(components[1]), int(components[2]), period)

\* the 12-hour branch, from the split of the marker on
Parse12(sp) ==
    IF sp = None THEN None ELSE Parse12Components(Components(sp.time_part), sp.period)

\* the 24-hour branch: range check
Check24(hours, minutes) ==
    IF IsValueError(hours) \/ IsValueError(minutes) THEN None
    ELSE IF ~(/\ 0 <= hours.value /\ hours.value <= 23
              /\ 0 <= minutes.value /\ minutes.value <= 59)
    THEN None
    ELSE Time(hours.value, minutes.value)

\* the 24-hour branch, from the components on
Parse24Components(components) ==
    IF components = None THEN None
    ELSE IF Len(components) # 2 THEN None
    ELSE Check24(int(components[1]), int(components[2]))

\* _parse_time, from the trimmed upper-case text on
ParseTrimmed(trimmed) ==
    IF \E x \in {AM, PM, A_M_, P_M_} : contains(x, trimmed)
    THEN Parse12(SplitPeriod(trimmed))
    ELSE Parse24Components(Components(trimmed))

_parse_time(time_string) == ParseTrimmed(upper(strip(time_string)))

(***************************************************************************)
(* BillingCalculator: duration, tier lookup, warnings                      *)
(***************************************************************************)
\* mutant: an end time before the start time counts as the next day
_calculate_duration_Wraparound(start, end) ==
    (total_minutes(end) - total_minutes(start)) % 1440

_calculate_duration(start, end) == total_minutes(end) - total_minutes(start)

\* for entry in table: if <hit>: ... break -- the index of the first entry the
\* loop stops at, 0 when it runs to the end; hit[i] tells whether entry i hits
FirstEntry(hit) ==
    LET at == {i \in DOMAIN hit : hit[i]}
    IN  IF at = {} THEN 0 ELSE SetMin(at)

\* mutant: the progress-note rows are matched on the face-to-face minutes
_find_calls_with_tier_OnActual(duration, note_type) ==
    IF note_type = PROGRESS_NOTE
    THEN LET hit == [k \in 1..Len(PROGRESS_NOTE_TABLE) |-> LET entry == PROGRESS_NOTE_TABLE[k] IN duration <= entry[2]]
             i == FirstEntry(hit)
             entry == PROGRESS_NOTE_TABLE[IF i # 0 THEN i ELSE 1]
         IN  <<entry[3], BillingTier(entry[3], None, entry[1], entry[2])>>
    ELSE LET hit == [k \in 1..Len(CONSULT_TABLE) |-> LET entry == CONSULT_TABLE[k] IN entry[1] <= duration /\ duration <= entry[2]]
             i == FirstEntry(hit)
         IN  IF i # 0
             THEN LET entry == CONSULT_TABLE[i]
                  IN  <<entry[3], BillingTier(entry[3], entry[1], entry[2], None)>>
             ELSE <<0, None>>

\* mutant: the consult rows are matched on their minimum alone
_find_calls_with_tier_NoUpperBound(duration, note_type) ==
    IF note_type = PROGRESS_NOTE
    THEN LET hit == [k \in 1..Len(PROGRESS_NOTE_TABLE) |-> LET entry == PROGRESS_NOTE_TABLE[k] IN duration <= entry[1]]
             i == FirstEntry(hit)
             entry == PROGRESS_NOTE_TABLE[IF i # 0 THEN i ELSE 1]
         IN  <<entry[3], BillingTier(entry[3], None, entry[1], entry[2])>>
    ELSE LET hit == [k \in 1..Len(CONSULT_TABLE) |-> LET entry == CONSULT_TABLE[k] IN entry[1] <= duration]
             i == FirstEntry(hit)
         IN  IF i # 0
             THEN LET entry == CONSULT_TABLE[i]
                  IN  <<entry[3], BillingTier(entry[3], entry[1], entry[2], None)>>
             ELSE <<0, None>>

\* the pair (calls, matched tier)
_find_calls_with_tier(duration, note_type) ==
    IF note_type = PROGRESS_NOTE
    THEN LET hit == [k \in 1..Len(PROGRESS_NOTE_TABLE) |-> LET entry == PROGRESS_NOTE_TABLE[k] IN duration <= entry[1]]
             i == FirstEntry(hit)
         IN  IF i # 0
             THEN LET entry == PROGRESS_NOTE_TABLE[i]
                  IN  <<entry[3], BillingTier(entry[3], None, entry[1], entry[2])>>
             ELSE IF PROGRESS_NOTE_TABLE # <<>>
             THEN LET first_entry == PROGRESS_NOTE_TABLE[1]
                  IN  <<first_entry[3],
                        BillingTier(first_entry[3], None, first_entry[1], first_entry[2])>>
             ELSE <<3, None>>
    ELSE LET hit == [k \in 1..Len(CONSULT_TABLE) |-> LET entry == CONSULT_TABLE[k] IN entry[1] <= duration /\ duration <= entry[2]]
             i == FirstEntry(hit)
         IN  IF i # 0
             THEN LET entry == CONSULT_TABLE[i]
                  IN  <<entry[3], BillingTier(entry[3], entry[1], entry[2], None)>>
             ELSE <<0, None>>

\* mutant: the next tier is the first with at least the current calls
_find_next_tier_NotStrict(current_calls, note_type) ==
    IF note_type = PROGRESS_NOTE
    THEN LET hit == [k \in 1..Len(PROGRESS_NOTE_TABLE) |-> LET entry == PROGRESS_NOTE_TABLE[k] IN entry[3] >= current_calls]
             i == FirstEntry(hit)
         IN  IF i # 0
             THEN <<PROGRESS_NOTE_TABLE[i][2], PROGRESS_NOTE_TABLE[i][3]>>
             ELSE None
    ELSE LET hit == [k \in 1..Len(CONSULT_TABLE) |-> LET entry == CONSULT_TABLE[k] IN entry[3] >= current_calls]
             i == FirstEntry(hit)
         IN  IF i # 0
             THEN <<CONSULT_TABLE[i][1], CONSULT_TABLE[i][3]>>
             ELSE None

\* the pair (threshold minutes, calls) of the next tier, or None
_find_next_tier(current_calls, note_type) ==
    IF note_type = PROGRESS_NOTE
    THEN LET hit == [k \in 1..Len(PROGRESS_NOTE_TABLE) |-> LET entry == PROGRESS_NOTE_TABLE[k] IN entry[3] > current_calls]
             i == FirstEntry(hit)
         IN  IF i # 0
             THEN <<PROGRESS_NOTE_TABLE[i][2], PROGRESS_NOTE_TABLE[i][3]>>
             ELSE None
    ELSE LET hit == [k \in 1..Len(CONSULT_TABLE) |-> LET entry == CONSULT_TABLE[k] IN entry[3] > current_calls]
             i == FirstEntry(hit)
         IN  IF i # 0
             THEN <<CONSULT_TABLE[i][1], CONSULT_TABLE[i][3]>>
             ELSE None

\* mutant: the warning window ends one minute early
NearNextTierOf_WindowExclusive(next_tier, duration, current_calls, start_time) ==
    IF next_tier = None THEN None
    ELSE IF 0 < next_tier[1] - duration
            /\ next_tier[1] - duration < WARNING_WINDOW_MINUTES
    THEN NearNextTier(current_calls, next_tier[2], next_tier[1] - duration,
                      formatted_string(from_minutes(total_minutes(start_time)
                                                    + next_tier[1])))
    ELSE None

\* mutant: the window reaches two minutes further, as far as the step between
\* the face-to-face thresholds
NearNextTierOf_WiderWindow(next_tier, duration, current_calls, start_time) ==
    IF next_tier = None THEN None
    ELSE IF 0 < next_tier[1] - duration
            /\ next_tier[1] - duration <= WARNING_WINDOW_MINUTES + 2
    THEN NearNextTier(current_calls, next_tier[2], next_tier[1] - duration,
                      formatted_string(from_minutes(total_minutes(start_time)
                                                    + next_tier[1])))
    ELSE None

\* _check_near_next_tier, from the next tier on
NearNextTierOf(next_tier, duration, current_calls, start_time) ==
    IF next_tier = None THEN None
    ELSE IF 0 < next_tier[1] - duration
            /\ next_tier[1] - duration <= WARNING_WINDOW_MINUTES
    THEN NearNextTier(current_calls, next_tier[2], next_tier[1] - duration,
                      formatted_string(from_minutes(total_minutes(start_time)
                                                    + next_tier[1])))
    ELSE None

\* a NearNextTier warning or None
_check_near_next_tier(duration, current_calls, start_time, note_type) ==
    NearNextTierOf(_find_next_tier(current_calls, note_type), duration,
                   current_calls, start_time)

\* mutant: only the full hour counts as aligned
_check_start_time_alignment_HourOnly(start_time) ==
    IF start_time.minutes \notin {0}
    THEN LET suggested_time ==
                 IF start_time.minutes < 15 THEN Time(start_time.hours, 0)
                 ELSE IF start_time.minutes < 45 THEN Time(start_time.hours, 30)
                 ELSE Time((start_time.hours + 1) % 24, 0)
         IN  StartTimeNotOnHourOrHalfHour(formatted_string(suggested_time))
    ELSE None

\* mutant: rounding up to the next hour does not wrap at midnight
_check_start_time_alignment_NoWrap(start_time) ==
    IF start_time.minutes \notin {0, 30}
    THEN LET suggested_time ==
                 IF start_time.minutes < 15 THEN Time(start_time.hours, 0)
                 ELSE IF start_time.minutes < 45 THEN Time(start_time.hours, 30)
                 ELSE Time(start_time.hours + 1, 0)
         IN  StartTimeNotOnHourOrHalfHour(formatted_string(suggested_time))
    ELSE None

\* a StartTimeNotOnHourOrHalfHour warning or None
_check_start_time_alignment(start_time) ==
    IF start_time.minutes \notin {0, 30}
    THEN LET suggested_time ==
                 IF start_time.minutes < 15 THEN Time(start_time.hours, 0)
                 ELSE IF start_time.minutes < 45 THEN Time(start_time.hours, 30)
                 ELSE Time((start_time.hours + 1) % 24, 0)
         IN  StartTimeNotOnHourOrHalfHour(formatted_string(suggested_time))
    ELSE None

(***************************************************************************)
(* BillingCalculator.calculate: a CalculationResult, or the                *)
(* CalculationError it raises.  The steps of the method follow one another *)
(* as operators, each taking what the steps before it computed.            *)
(***************************************************************************)
\* the warnings are collected and the result is returned
CalculateWarnings(calls, matched_tier, duration, start_time, end_time, note_type, next_tier_warning, start_time_warning) ==
    CalculationResult(calls, duration, start_time, end_time,
                      (IF next_tier_warning # None THEN <<next_tier_warning>> ELSE <<>>)
                      \o (IF start_time_warning # None THEN <<start_time_warning>> ELSE <<>>),
                      matched_tier, note_type)

\* the consult duration must have matched a row; then the warnings are checked
CalculateTier(found, duration, start_time, end_time, note_type) ==
    IF note_type = CONSULT /\ found[1] = 0
    THEN CalculationError(NoMatchingConsultTier)
    ELSE CalculateWarnings(found[1], found[2], duration, start_time, end_time, note_type,
                           _check_near_next_tier(duration, found[1], start_time, note_type),
                           IF note_type = PROGRESS_NOTE
                           THEN _check_start_time_alignment(start_time)
                           ELSE None)

\* mutant: the duration is not checked for its sign
CalculateDuration_SignUnchecked(duration, start_time, end_time, note_type) ==
    IF note_type = CONSULT /\ duration < CONSULT_MINIMUM_DURATION
    THEN CalculationError(BelowConsultMinimum)
    ELSE IF duration > (IF note_type = CONSULT THEN CONSULT_MAXIMUM_DURATION
                        ELSE PROGRESS_NOTE_MAXIMUM_DURATION)
    THEN CalculationError(DurationExceedsMaximum)
    ELSE CalculateTier(_find_calls_with_tier(duration, note_type), duration,
                       start_time, end_time, note_type)

\* mutant: the consult minimum is checked before the sign of the duration
CalculateDuration_MinimumFirst(duration, start_time, end_time, note_type) ==
    IF note_type = CONSULT /\ duration < CONSULT_MINIMUM_DURATION
    THEN CalculationError(BelowConsultMinimum)
    ELSE IF duration < 0 THEN CalculationError(StartAfterEnd)
    ELSE IF duration > (IF note_type = CONSULT THEN CONSULT_MAXIMUM_DURATION
                        ELSE PROGRESS_NOTE_MAXIMUM_DURATION)
    THEN CalculationError(DurationExceedsMaximum)
    ELSE CalculateTier(_find_calls_with_tier(duration, note_type), duration,
                       start_time, end_time, note_type)

\* the checks of the duration; then the tier is looked up
CalculateDuration(duration, start_time, end_time, note_type) ==
    IF duration < 0 THEN CalculationError(StartAfterEnd)
    ELSE IF note_type = CONSULT /\ duration < CONSULT_MINIMUM_DURATION
    THEN CalculationError(BelowConsultMinimum)
    ELSE IF duration > (IF note_type = CONSULT THEN CONSULT_MAXIMUM_DURATION
                        ELSE PROGRESS_NOTE_MAXIMUM_DURATION)
    THEN CalculationError(DurationExceedsMaximum)
    ELSE CalculateTier(_find_calls_with_tier(duration, note_type), duration,
                       start_time, end_time, note_type)

\* both times must have parsed; then the duration is calculated
CalculateTimes(start_time, end_time, note_type) ==
    IF start_time = None \/ end_time = None THEN CalculationError(InvalidTime)
    ELSE CalculateDuration(_calculate_duration(start_time, end_time),
                           start_time, end_time, note_type)

\* a separator must have matched; then the two tokens are parsed
CalculateSplit(trimmed_input, match, note_type) ==
    IF match = None THEN CalculationError(InvalidFormat)
    ELSE CalculateTimes(
             _parse_time(strip(SubSeq(trimmed_input, 1, match.start))),
             _parse_time(strip(SubSeq(trimmed_input, match.end + 1, Len(trimmed_input)))),
             note_type)

\* the separator is searched in the trimmed input
CalculateTrimmed(trimmed_input, note_type) ==
    CalculateSplit(trimmed_input, SeparatorSearch(trimmed_input), note_type)

calculate(input_str, note_type) == CalculateTrimmed(strip(input_str), note_type)

(***************************************************************************)
(* The time ranges the user types                                          *)
(***************************************************************************)
\* the hours of the typed start times
StartHours == {9, 22, 23}

\* the session lengths typed with every start minute
SampleDeltas == {0, 5, 29, 55, 69, 100}

\* "HH:MM-HH:MM" for a start time and an end time delta minutes later
TypedRange(h, m, delta) ==
    formatted_string(Time(h, m)) \o <<"-">>
        \o formatted_string(from_minutes(h * 60 + m + delta))

\* other texts, in the formats of the examples of the input field
OtherInputs ==
    { <<"i", "n", "v", "a", "l", "i", "d">>,
      <<"1", "0", ":", "0", "0", "-", "0", "9", ":", "0", "0">>,
      <<"2", "3", ":", "3", "0", "-", "0", "0", ":", "1", "5">>,
      <<"9", ":", "0", "0", " ", "A", "M", " ", "t", "o", " ", "1", "0", ":", "3", "0", " ", "A", "M">>,
      <<"0", "9", ":", "0", "0", " ", "t", "o", " ", "1", "0", ":", "3", "0">>,
      <<"0", "9", "0", "0", "-", "1", "0", "3", "0">>,
      <<"0", "9", "0", "0", "t", "o", "1", "0", "0", "0">>,
      <<"9", ":", "0", "0", "A", "M", "-", "1", "0", ":", "3", "0", "A", "M">>,
      <<"1", "1", ":", "3", "0", " ", "a", "m", " ", "T", "O", " ", "1", ":", "1", "5", " ", "p", ".", "m", ".">>,
      <<"0", ":", "3", "0", " ", "A", "M", "-", "1", ":", "0", "0", " ", "A", "M">>,
      <<"9", " ", "t", "o", " ", "5">>,
      <<" ", " ">> }

\* the AM/PM markers as typed: glued or after a space, either case, with or
\* without dots
Markers12 ==
    { [text |-> <<" ", "A", "M">>, period |-> "AM"],
      [text |-> <<"P", "M">>, period |-> "PM"],
      [text |-> <<" ", "a", ".", "m", ".">>, period |-> "AM"],
      [text |-> <<" ", "P", ".", "M", ".">>, period |-> "PM"] }

\* the minutes typed before a marker
Minutes12 == {0, 30, 59, 60}

\* a time with a marker, "H:MM AM" or colon-free "HMM AM"
Token12(h, m, colon, marker) ==
    str(h) \o (IF colon THEN <<":">> ELSE <<>>) \o Format02d(m) \o marker.text

\* a session of no length at a time with a marker: "H:MM AM-H:MM AM"
Typed12Range(h, m, colon, marker) ==
    Token12(h, m, colon, marker) \o <<"-">> \o Token12(h, m, colon, marker)

Typed12Inputs ==
    { Typed12Range(h, m, colon, marker) :
          h \in 0..MaxHour12, m \in Minutes12, colon \in BOOLEAN, marker \in Markers12 }

\* every session length from every start hour, every start minute with the
\* sampled session lengths, the times with a marker, and the other texts
TypedInputs ==
    { TypedRange(h, 0, delta) : h \in StartHours, delta \in (0 - MaxBack)..MaxDelta }
    \cup { TypedRange(h, m, delta) :
              h \in StartHours, m \in 0..MaxStartMinute, delta \in SampleDeltas }
    \cup Typed12Inputs
    \cup OtherInputs

(***************************************************************************)
(* class BillingTimeCalcApp: the state of the window.  The fields that     *)
(* only display (result_text, the details text, the clipboard) and the     *)
(* stopwatch are left out.  The user is taken to type a range into the     *)
(* empty field and to wait for a scheduled recalculation before the next   *)
(* key or click.                                                           *)
(***************************************************************************)
VARIABLES
    time_input,                  \* the text of the input field
    error_message,               \* the error label, "" when there is none
    selected_note_type,
    current_calculation_result,  \* a CalculationResult or None
    suggested_time_range,        \* the suggested range, <<>> when there is none
    start_time_warning_shown,
    time_input_str,              \* the text _calculate_calls last read from the field
    after_pending,               \* the _calculate_calls callbacks scheduled with root.after
    calculator_calls,            \* test_calculator: the calls made on its calculator, in order
    calculator_tables,           \* the lists bound to the two table attributes of the class
    accepted_amendments,         \* history: the suggestions accepted since the user last
                                 \* started a calculation, "start" or "end", in order
    declined_suggestion          \* history: a suggestion was declined since then

vars == <<time_input, error_message, selected_note_type, current_calculation_result,
          suggested_time_range, start_time_warning_shown, time_input_str, after_pending,
          calculator_calls, calculator_tables, accepted_amendments, declined_suggestion>>

\* the table attributes as the class body binds them
ClassTables ==
    [PROGRESS_NOTE_TABLE |-> PROGRESS_NOTE_TABLE, CONSULT_TABLE |-> CONSULT_TABLE]

\* BillingTimeCalcApp.__init__
Init ==
    /\ time_input = <<>>
    /\ error_message = ""
    /\ selected_note_type = PROGRESS_NOTE
    /\ current_calculation_result = None
    /\ suggested_time_range = <<>>
    /\ start_time_warning_shown = FALSE
    /\ time_input_str = <<>>
    /\ after_pending = 0
    /\ calculator_calls = <<>>
    /\ calculator_tables = ClassTables
    /\ accepted_amendments = <<>>
    /\ declined_suggestion = FALSE

\* next(w for w in warnings if isinstance(w, kind), None)
FirstWarning(warnings, kind) ==
    LET at == {i \in 1..Len(warnings) : warnings[i].warning = kind}
    IN  IF at = {} THEN None ELSE warnings[SetMin(at)]

\* _amend_start_time and _amend_time_for_next_tier: the amended range goes to
\* the input field and a recalculation is scheduled
Amended(amended_range) ==
    [time_input |-> amended_range, suggested_time_range |-> amended_range, scheduled |-> 1]

\* _show_near_tier_warning, answered with response
ShowNearTierWarning(warning, result, response, input) ==
    IF response
    THEN Amended(formatted_string(result.start_time) \o <<"-">> \o warning.suggested_end_time)
    ELSE [time_input |-> input, suggested_time_range |-> <<>>, scheduled |-> 0]

\* _check_for_near_tier_warning
CheckForNearTierWarning(result, response, input) ==
    LET near_tier_warning == FirstWarning(result.warnings, "NearNextTier")
    IN  IF near_tier_warning # None
        THEN ShowNearTierWarning(near_tier_warning, result, response, input)
        ELSE [time_input |-> input, suggested_time_range |-> <<>>, scheduled |-> 0]

\* _show_start_time_warning, answered with response; declined, the near tier
\* warning is offered and answered with near_response
ShowStartTimeWarning(warning, result, response, near_response, input) ==
    IF response
    THEN Amended(warning.suggested_start_time \o <<"-">> \o formatted_string(result.end_time))
    ELSE CheckForNearTierWarning(result, near_response, input)

\* _process_warnings, entered with start_time_warning_shown = FALSE
ProcessWarnings(result, start_response, near_response, input) ==
    LET start_time_warning == FirstWarning(result.warnings, "StartTimeNotOnHourOrHalfHour")
        near_tier_warning == FirstWarning(result.warnings, "NearNextTier")
        shown == start_time_warning # None
        effect ==
            IF start_time_warning # None
            THEN ShowStartTimeWarning(start_time_warning, result, start_response,
                                      near_response, input)
            ELSE IF near_tier_warning # None
            THEN ShowNearTierWarning(near_tier_warning, result, near_response, input)
            ELSE [time_input |-> input, suggested_time_range |-> <<>>, scheduled |-> 0]
    IN  [start_time_warning_shown |-> shown, time_input |-> effect.time_input,
         suggested_time_range |-> effect.suggested_time_range,
         scheduled |-> effect.scheduled]

\* the suggestion the answers accept: the start time when its dialog is shown
\* and answered yes, else the end time when its dialog is shown and answered
\* yes, else none
AcceptedSuggestion(result, start_response, near_response) ==
    IF FirstWarning(result.warnings, "StartTimeNotOnHourOrHalfHour") # None
    THEN IF start_response THEN <<"start">>
         ELSE IF FirstWarning(result.warnings, "NearNextTier") # None /\ near_response
         THEN <<"end">>
         ELSE <<>>
    ELSE IF FirstWarning(result.warnings, "NearNextTier") # None /\ near_response
    THEN <<"end">>
    ELSE <<>>

\* a dialog is shown and answered no
DeclinedSuggestion(result, start_response, near_response) ==
    IF FirstWarning(result.warnings, "StartTimeNotOnHourOrHalfHour") # None
    THEN ~start_response
    ELSE FirstWarning(result.warnings, "NearNextTier") # None /\ ~near_response

\* _calculate_calls for the note type selected, pending callbacks remaining
\* scheduled, earlier being the history of the suggestions answered before;
\* the dialogs it opens are answered either way.  (stripped and outcome are
\* bound by \E over a singleton so that each is computed once.)
CalculateCallsBody(note_type, pending, earlier) ==
    \E stripped \in {strip(time_input)} :
    \E outcome \in {calculate(stripped, note_type)} :
        /\ time_input_str' = stripped
        /\ selected_note_type' = note_type
        /\ UNCHANGED <<calculator_calls, calculator_tables>>
        /\ IF stripped = <<>>
           THEN /\ error_message' = ""
                /\ current_calculation_result' = None
                /\ suggested_time_range' = <<>>
                /\ start_time_warning_shown' = FALSE
                /\ time_input' = time_input
                /\ after_pending' = pending
                /\ accepted_amendments' = earlier.accepted
                /\ declined_suggestion' = earlier.declined
           ELSE IF IsError(outcome)
           THEN /\ error_message' = outcome.error
                /\ current_calculation_result' = None
                /\ suggested_time_range' = <<>>
                /\ start_time_warning_shown' = FALSE
                /\ time_input' = time_input
                /\ after_pending' = pending
                /\ accepted_amendments' = earlier.accepted
                /\ declined_suggestion' = earlier.declined
           ELSE \E start_response, near_response \in BOOLEAN :
                   LET processed == ProcessWarnings(outcome, start_response,
                                                    near_response, time_input)
                   IN  /\ error_message' = ""
                       /\ current_calculation_result' = outcome
                       /\ suggested_time_range' = processed.suggested_time_range
                       /\ start_time_warning_shown' = processed.start_time_warning_shown
                       /\ time_input' = processed.time_input
                       /\ after_pending' = pending + processed.scheduled
                       /\ accepted_amendments' =
                             earlier.accepted
                                 \o AcceptedSuggestion(outcome, start_response, near_response)
                       /\ declined_suggestion' =
                             (earlier.declined
                                 \/ DeclinedSuggestion(outcome, start_response, near_response))

\* the user types a time range into the empty input field; the key release
\* runs _on_input_change
TypeInput ==
    /\ time_input = <<>>
    /\ after_pending = 0
    /\ \E text \in TypedInputs : time_input' = text
    /\ error_message' = ""
    /\ UNCHANGED <<selected_note_type, current_calculation_result, suggested_time_range,
                   start_time_warning_shown, time_input_str, after_pending,
                   calculator_calls, calculator_tables, accepted_amendments,
                   declined_suggestion>>

\* Return in the input field, or the Calculate Calls button
CalculateCalls ==
    /\ after_pending = 0
    /\ CalculateCallsBody(selected_note_type, after_pending,
                          [accepted |-> <<>>, declined |-> FALSE])

\* the recalculation an accepted suggestion scheduled with root.after
AfterCallback ==
    /\ after_pending > 0
    /\ CalculateCallsBody(selected_note_type, after_pending - 1,
                          [accepted |-> accepted_amendments, declined |-> declined_suggestion])

\* _on_note_type_changed, a radio button of the note type is clicked
OnNoteTypeChanged ==
    /\ after_pending = 0
    /\ \E note_type \in NoteType :
          IF time_input # <<>>
          THEN CalculateCallsBody(note_type, after_pending,
                                  [accepted |-> <<>>, declined |-> FALSE])
          ELSE /\ selected_note_type' = note_type
               /\ error_message' = ""
               /\ current_calculation_result' = None
               /\ suggested_time_range' = <<>>
               /\ start_time_warning_shown' = FALSE
               /\ UNCHANGED <<time_input, time_input_str, after_pending,
                              calculator_calls, calculator_tables,
                              accepted_amendments, declined_suggestion>>

Next ==
    \/ TypeInput
    \/ CalculateCalls
    \/ AfterCallback
    \/ OnNoteTypeChanged

Spec == Init /\ [][Next]_vars

(***************************************************************************)
(* test_calculator: one BillingCalculator is constructed and calculate is  *)
(* called on it again and again.  Here the calls come in any order and     *)
(* with either note type; the window is not opened.                        *)
(***************************************************************************)
\* the texts test_calculator passes to calculate
TestInputs ==
    { <<"0", "9", ":", "0", "0", "-", "0", "9", ":", "4", "5">>,
      <<"0", "9", ":", "0", "0", "-", "1", "0", ":", "0", "5">>,
      <<"9", ":", "0", "0", " ", "A", "M", " ", "t", "o", " ", "1", "0", ":", "3", "0", " ", "A", "M">>,
      <<"i", "n", "v", "a", "l", "i", "d">>,
      <<"1", "0", ":", "0", "0", "-", "0", "9", ":", "0", "0">>,
      <<"0", "9", ":", "0", "0", "-", "0", "9", ":", "2", "0">> }

\* the warnings of the latest call that returned a result
CarriedWarnings ==
    LET returned == {i \in 1..Len(calculator_calls) : IsResult(calculator_calls[i].outcome)}
    IN  IF returned = {} THEN <<>> ELSE calculator_calls[SetMax(returned)].outcome.warnings

\* mutant: the warnings list is one list shared by all calls, never emptied
CalculatorCall_SharedWarnings ==
    /\ Len(calculator_calls) < MaxCalls
    /\ \E input_str \in TestInputs, note_type \in NoteType :
       \E outcome \in {calculate(input_str, note_type)} :
          calculator_calls' =
              Append(calculator_calls,
                     [input_str |-> input_str, note_type |-> note_type,
                      outcome |-> IF IsResult(outcome)
                                  THEN [outcome EXCEPT !.warnings = CarriedWarnings \o @]
                                  ELSE outcome])
    /\ UNCHANGED <<time_input, error_message, selected_note_type,
                   current_calculation_result, suggested_time_range,
                   start_time_warning_shown, time_input_str, after_pending,
                   calculator_tables, accepted_amendments, declined_suggestion>>

\* calculator.calculate(input_str, note_type): the result, or the error caught
CalculatorCall ==
    /\ Len(calculator_calls) < MaxCalls
    /\ \E input_str \in TestInputs, note_type \in NoteType :
          calculator_calls' =
              Append(calculator_calls,
                     [input_str |-> input_str, note_type |-> note_type,
                      outcome |-> calculate(input_str, note_type)])
    /\ UNCHANGED <<time_input, error_message, selected_note_type,
                   current_calculation_result, suggested_time_range,
                   start_time_warning_shown, time_input_str, after_pending,
                   calculator_tables, accepted_amendments, declined_suggestion>>

CallsNext == CalculatorCall

CallsSpec == Init /\ [][CallsNext]_vars

(***************************************************************************)
(* What the latest calculation was given and what it produced              *)
(***************************************************************************)
\* the latest _calculate_calls called calculate(time_input_str, selected_note_type)
Calculated == current_calculation_result # None \/ error_message # ""

\* the text "HH:MM-HH:MM", read digit by digit
IsClockRange(s) ==
    /\ Len(s) = 11
    /\ s[3] = ":" /\ s[6] = "-" /\ s[9] = ":"
    /\ \A i \in {1, 2, 4, 5, 7, 8, 10, 11} : IsDigit(s[i])
TwoDigits(s, i) == 10 * DigitVal(s[i]) + DigitVal(s[i + 1])
ValidClockRange(s) ==
    /\ IsClockRange(s)
    /\ TwoDigits(s, 1) <= 23 /\ TwoDigits(s, 4) <= 59
    /\ TwoDigits(s, 7) <= 23 /\ TwoDigits(s, 10) <= 59
RangeStart(s) == 60 * TwoDigits(s, 1) + TwoDigits(s, 4)
RangeEnd(s) == 60 * TwoDigits(s, 7) + TwoDigits(s, 10)

\* the durations a note category accepts
Accepted(d, note_type) ==
    IF note_type = CONSULT THEN 61 <= d /\ d <= 180 ELSE 0 <= d /\ d <= 165

\* the two tokens of a text and the times they parse to
StartToken(s) == SubSeq(s, 1, SeparatorSearch(s).start)
EndToken(s) == SubSeq(s, SeparatorSearch(s).end + 1, Len(s))
BothParse(s) ==
    /\ SeparatorSearch(s) # None
    /\ _parse_time(StartToken(s)) # None
    /\ _parse_time(EndToken(s)) # None
TokenMinutes(token) == total_minutes(_parse_time(token))

Text_0900_0920 == <<"0", "9", ":", "0", "0", "-", "0", "9", ":", "2", "0">>
Text_1000_0900 == <<"1", "0", ":", "0", "0", "-", "0", "9", ":", "0", "0">>
Text_2330_0015 == <<"2", "3", ":", "3", "0", "-", "0", "0", ":", "1", "5">>
Text_invalid == <<"i", "n", "v", "a", "l", "i", "d">>

(***************************************************************************)
(* C1                                                                      *)
(***************************************************************************)
\* C1 as stated: every valid 24-hour text HH:MM-HH:MM with start before end is
\* calculated to a result whose duration is end minus start.
C1_EveryValidRangeSucceeds ==
    (/\ Calculated
     /\ ValidClockRange(time_input_str)
     /\ RangeStart(time_input_str) < RangeEnd(time_input_str))
    => /\ current_calculation_result # None
       /\ current_calculation_result.duration =
              RangeEnd(time_input_str) - RangeStart(time_input_str)

\* C1, amended: every valid 24-hour text HH:MM-HH:MM with start before end and
\* with end minus start in the range the note category accepts (at most 165
\* for a progress note, 61..180 for a consult) is calculated to a result whose
\* duration is end minus start.
C1_ValidRangeInBoundsSucceeds ==
    (/\ Calculated
     /\ ValidClockRange(time_input_str)
     /\ RangeStart(time_input_str) < RangeEnd(time_input_str)
     /\ Accepted(RangeEnd(time_input_str) - RangeStart(time_input_str), selected_note_type))
    => /\ current_calculation_result # None
       /\ error_message = ""
       /\ current_calculation_result.duration =
              RangeEnd(time_input_str) - RangeStart(time_input_str)

C1_Witness ==
    /\ ValidClockRange(time_input_str)
    /\ RangeStart(time_input_str) < RangeEnd(time_input_str)
    /\ current_calculation_result # None
    /\ current_calculation_result.duration = 100
    /\ selected_note_type = CONSULT

(***************************************************************************)
(* C2                                                                      *)
(***************************************************************************)
\* C2: a progress note of duration d in 0..165 is billed the calls of the first
\* row, in table order, whose billing maximum (30, 45, ..., 165) is at least d;
\* 45 minutes are 4 calls, 90 minutes are 7 calls.
C2_ProgressNoteNearestCeiling ==
    (current_calculation_result # None
        /\ current_calculation_result.note_type = PROGRESS_NOTE)
    => LET d == current_calculation_result.duration
           calls == current_calculation_result.calls
       IN  /\ d \in 0..165
           /\ \E i \in 1..10 :
                 /\ 15 * i + 15 >= d
                 /\ \A j \in 1..(i - 1) : 15 * j + 15 < d
                 /\ PROGRESS_NOTE_TABLE[i][1] = 15 * i + 15
                 /\ calls = PROGRESS_NOTE_TABLE[i][3]
                 /\ calls = i + 2
           /\ (d = 45 => calls = 4)
           /\ (d = 90 => calls = 7)

C2_Witness ==
    /\ current_calculation_result # None
    /\ current_calculation_result.note_type = PROGRESS_NOTE
    /\ current_calculation_result.duration = 90
    /\ current_calculation_result.calls = 7

(***************************************************************************)
(* C3                                                                      *)
(***************************************************************************)
\* C3: a consult of duration d in 61..180 is billed the calls of the first row,
\* in table order, whose range [minMinutes, maxMinutes] contains d; 65 minutes
\* lie in [61, 71] and are 1 call.
C3_ConsultRange ==
    (current_calculation_result # None
        /\ current_calculation_result.note_type = CONSULT)
    => LET d == current_calculation_result.duration
           calls == current_calculation_result.calls
           Within(i) == CONSULT_TABLE[i][1] <= d /\ d <= CONSULT_TABLE[i][2]
       IN  /\ d \in 61..180
           /\ \E i \in 1..Len(CONSULT_TABLE) :
                 /\ Within(i)
                 /\ \A j \in 1..(i - 1) : ~Within(j)
                 /\ calls = CONSULT_TABLE[i][3]
           /\ (d = 65 => calls = 1)
           /\ (d \in 61..71 <=> calls = 1)

C3_Witness ==
    /\ current_calculation_result # None
    /\ current_calculation_result.note_type = CONSULT
    /\ current_calculation_result.duration = 65
    /\ current_calculation_result.calls = 1

(***************************************************************************)
(* C4                                                                      *)
(***************************************************************************)
\* the calls calculate resolves for every duration from midnight, per category
ResolvedFromMidnight ==
    [note_type \in NoteType |->
        [d \in 0..(MaxDelta + 1) |-> calculate(TypedRange(0, 0, d), note_type)]]

\* C4: within one note category, a duration that resolves is never billed more
\* calls than a longer duration that resolves.
C4_TierMonotonic ==
    current_calculation_result # None
    => \A d2 \in current_calculation_result.duration..(MaxDelta + 1) :
          LET longer == ResolvedFromMidnight[current_calculation_result.note_type][d2]
          IN  IsResult(longer) => current_calculation_result.calls <= longer.calls

C4_Witness ==
    /\ current_calculation_result # None
    /\ current_calculation_result.note_type = PROGRESS_NOTE
    /\ current_calculation_result.duration = 31
    /\ current_calculation_result.calls = 4
    /\ IsResult(ResolvedFromMidnight[PROGRESS_NOTE][165])
    /\ ResolvedFromMidnight[PROGRESS_NOTE][165].calls = 12

(***************************************************************************)
(* C5                                                                      *)
(***************************************************************************)
\* C5: when both tokens parse and the end time is earlier in the day than the
\* start time, the calculation fails with "Start time must be before end time"
\* and leaves no result; 23:30-00:15 and 10:00-09:00 are such errors.
C5_StartAfterEnd ==
    /\ (/\ Calculated
        /\ BothParse(time_input_str)
        /\ TokenMinutes(EndToken(time_input_str)) < TokenMinutes(StartToken(time_input_str)))
       => (error_message = StartAfterEnd /\ current_calculation_result = None)
    /\ (Calculated /\ time_input_str \in {Text_2330_0015, Text_1000_0900})
       => (error_message = StartAfterEnd /\ current_calculation_result = None)

C5_Witness ==
    /\ time_input_str = Text_2330_0015
    /\ error_message = StartAfterEnd
    /\ current_calculation_result = None

(***************************************************************************)
(* C6                                                                      *)
(***************************************************************************)
\* C6: a non-negative duration is calculated to a result exactly when it lies
\* in the accepted range of the category (0..165 for a progress note, 61..180
\* for a consult); a consult below 61 fails with the consult-minimum error and
\* a duration above the ceiling fails with "Duration exceeds maximum".
C6_AcceptedRange ==
    (Calculated /\ BothParse(time_input_str))
    => LET d == TokenMinutes(EndToken(time_input_str))
                    - TokenMinutes(StartToken(time_input_str))
       IN  d >= 0 =>
           /\ (current_calculation_result # None <=> Accepted(d, selected_note_type))
           /\ (selected_note_type = CONSULT /\ d < 61
                  => error_message = BelowConsultMinimum)
           /\ (d > (IF selected_note_type = CONSULT THEN 180 ELSE 165)
                  => error_message = DurationExceedsMaximum)

C6_Witness ==
    /\ current_calculation_result # None
    /\ current_calculation_result.note_type = PROGRESS_NOTE
    /\ current_calculation_result.duration = 0
    /\ current_calculation_result.calls = 3

(***************************************************************************)
(* C7                                                                      *)
(***************************************************************************)
\* a "-" or a "to" between whitespace, read off the text
HasSeparator(s) ==
    \/ \E i \in 1..Len(s) : s[i] = "-"
    \/ \E i \in 1..(Len(s) - 3) :
          /\ s[i] = " "
          /\ s[i + 1] \in {"t", "T"}
          /\ s[i + 2] \in {"o", "O"}
          /\ s[i + 3] = " "

DeclaredErrors ==
    {InvalidFormat, InvalidTime, StartAfterEnd, BelowConsultMinimum,
     DurationExceedsMaximum, NoMatchingConsultTier}

\* C7: a text with neither a "-" nor a "to" between whitespace (such as
\* "invalid") fails with the invalid-format error; and every failure shows
\* exactly one of the declared errors and leaves no result, while a result
\* comes with no error.
C7_InvalidFormatAndNoPartialResult ==
    /\ (Calculated /\ ~HasSeparator(time_input_str))
       => (error_message = InvalidFormat /\ current_calculation_result = None)
    /\ error_message # ""
       => (error_message \in DeclaredErrors /\ current_calculation_result = None)
    /\ current_calculation_result # None
       => (error_message = "" /\ IsResult(current_calculation_result))

C7_Witness ==
    /\ time_input_str = Text_invalid
    /\ error_message = InvalidFormat
    /\ current_calculation_result = None

(***************************************************************************)
(* C8                                                                      *)
(***************************************************************************)
\* C8 as stated: 09:00-09:20 as a progress note has duration 20, 3 calls (the
\* row with maximum 30) and a NearNextTier warning.
C8_NearNextTierAt20 ==
    (Calculated /\ time_input_str = Text_0900_0920 /\ selected_note_type = PROGRESS_NOTE)
    => /\ current_calculation_result # None
       /\ current_calculation_result.duration = 20
       /\ current_calculation_result.calls = 3
       /\ current_calculation_result.matched_tier.max_minutes = 30
       /\ FirstWarning(current_calculation_result.warnings, "NearNextTier") # None

\* C8, amended: 09:00-09:20 as a progress note has duration 20, 3 calls (the
\* row with maximum 30) and no NearNextTier warning (the next tier's threshold,
\* 36 face-to-face minutes, is 16 minutes away, outside the 10-minute window).
C8_NoNearNextTierAt20 ==
    (Calculated /\ time_input_str = Text_0900_0920 /\ selected_note_type = PROGRESS_NOTE)
    => /\ current_calculation_result # None
       /\ current_calculation_result.duration = 20
       /\ current_calculation_result.calls = 3
       /\ current_calculation_result.matched_tier.max_minutes = 30
       /\ FirstWarning(current_calculation_result.warnings, "NearNextTier") = None

C8_Witness ==
    /\ time_input_str = Text_0900_0920
    /\ selected_note_type = PROGRESS_NOTE
    /\ current_calculation_result # None
    /\ current_calculation_result.calls = 3

(***************************************************************************)
(* C9                                                                      *)
(***************************************************************************)
\* the range _amend_time_for_next_tier writes for a NearNextTier warning
ExtendedRange(result, warning) ==
    formatted_string(result.start_time) \o <<"-">> \o warning.suggested_end_time

\* C9: whenever a result carries a NearNextTier warning, calculating the same
\* start with the suggested end time, in the same category, gives a result with
\* more calls than the current calls, namely the warning's next calls.
C9_ExtendingBillsMore ==
    current_calculation_result # None
    => LET warning == FirstWarning(current_calculation_result.warnings, "NearNextTier")
       IN  warning # None
           => LET extended == calculate(ExtendedRange(current_calculation_result, warning),
                                        current_calculation_result.note_type)
              IN  /\ IsResult(extended)
                  /\ extended.calls > warning.current_calls
                  /\ extended.calls = warning.next_calls

(***************************************************************************)
(* C10                                                                     *)
(***************************************************************************)
\* C10: no consult result carries a start-alignment warning, whatever its
\* start minute; a progress-note result carries one exactly when its start
\* minute is neither 0 nor 30.
C10_AlignmentOnlyForProgressNote ==
    current_calculation_result # None
    => LET aligned == current_calculation_result.start_time.minutes \in {0, 30}
           warned == \E i \in 1..Len(current_calculation_result.warnings) :
                        current_calculation_result.warnings[i].warning
                            = "StartTimeNotOnHourOrHalfHour"
       IN  /\ current_calculation_result.note_type = CONSULT => ~warned
           /\ current_calculation_result.note_type = PROGRESS_NOTE => (warned <=> ~aligned)
           /\ ValidClockRange(time_input_str)
                 => current_calculation_result.start_time.minutes = TwoDigits(time_input_str, 4)

C10_Witness ==
    /\ current_calculation_result # None
    /\ current_calculation_result.note_type = CONSULT
    /\ current_calculation_result.start_time.minutes = 47
    /\ current_calculation_result.duration = 100
    /\ FirstWarning(current_calculation_result.warnings,
                    "StartTimeNotOnHourOrHalfHour") = None

Form12(t) ==
    str(IF t.hours % 12 = 0 THEN 12 ELSE t.hours % 12) \o <<":">> \o Format02d(t.minutes)
        \o <<" ">> \o (IF t.hours < 12 THEN AM ELSE PM)
Form24(t) == Format02d(t.hours) \o <<":">> \o Format02d(t.minutes)
Form4(t) == Format02d(t.hours) \o Format02d(t.minutes)

\* the three written forms of a range
Range12(start, end) == Form12(start) \o <<" ", "t", "o", " ">> \o Form12(end)
Range24(start, end) == Form24(start) \o <<"-">> \o Form24(end)
Range4(start, end) == Form4(start) \o <<"-">> \o Form4(end)

\* the outcome of the latest calculation, as calculate gave it
LatestOutcome ==
    IF current_calculation_result # None THEN current_calculation_result
    ELSE CalculationError(error_message)

Text_9AM_1030AM ==
    <<"9", ":", "0", "0", " ", "A", "M", " ", "t", "o", " ", "1", "0", ":", "3", "0", " ", "A", "M">>
Text_0900_1030 == <<"0", "9", ":", "0", "0", "-", "1", "0", ":", "3", "0">>
Text_09001030 == <<"0", "9", "0", "0", "-", "1", "0", "3", "0">>

\* every clock time on the quarter hours and at the last minute of an hour
\* parses to itself from each of its three forms
FormsParseAlike ==
    \A h \in 0..23 : \A m \in {0, 15, 30, 45, 59} :
        /\ _parse_time(Form12(Time(h, m))) = Time(h, m)
        /\ _parse_time(Form24(Time(h, m))) = Time(h, m)
        /\ _parse_time(Form4(Time(h, m))) = Time(h, m)

\* C12: for one pair of clock times, the 12-hour form with " to ", the 24-hour
\* form with colons and "-" and the 4-digit form without colons are calculated
\* to the same start, end and duration (to the same outcome altogether);
\* "9:00 AM to 10:30 AM", "09:00-10:30" and "0900-1030" all give 09:00, 10:30
\* and 90 minutes.
C12_FormatEquivalent ==
    /\ FormsParseAlike
    /\ (Calculated /\ ValidClockRange(time_input_str))
       => LET start == Time(TwoDigits(time_input_str, 1), TwoDigits(time_input_str, 4))
              end == Time(TwoDigits(time_input_str, 7), TwoDigits(time_input_str, 10))
          IN  /\ Range24(start, end) = time_input_str
              /\ calculate(Range12(start, end), selected_note_type) = LatestOutcome
              /\ calculate(Range4(start, end), selected_note_type) = LatestOutcome
    /\ current_calculation_result # None
       => /\ calculate(Range12(current_calculation_result.start_time,
                               current_calculation_result.end_time),
                       selected_note_type) = current_calculation_result
          /\ calculate(Range24(current_calculation_result.start_time,
                               current_calculation_result.end_time),
                       selected_note_type) = current_calculation_result
          /\ calculate(Range4(current_calculation_result.start_time,
                              current_calculation_result.end_time),
                       selected_note_type) = current_calculation_result
    /\ (Calculated /\ time_input_str \in {Text_9AM_1030AM, Text_0900_1030, Text_09001030})
       => /\ current_calculation_result # None
          /\ current_calculation_result.start_time = Time(9, 0)
          /\ current_calculation_result.end_time = Time(10, 30)
          /\ current_calculation_result.duration = 90

C12_Witness ==
    /\ time_input_str = Text_9AM_1030AM
    /\ current_calculation_result # None
    /\ current_calculation_result.start_time = Time(9, 0)
    /\ current_calculation_result.end_time = Time(10, 30)
    /\ current_calculation_result.duration = 90
    /\ calculate(Text_09001030, selected_note_type) = current_calculation_result
    /\ calculate(Text_0900_1030, selected_note_type) = current_calculation_result

(***************************************************************************)
(* C13                                                                     *)
(***************************************************************************)
\* every duration within the bounds of its category is matched by a row
AcceptedDurationsMatch ==
    /\ \A d \in 0..PROGRESS_NOTE_MAXIMUM_DURATION :
          /\ _find_calls_with_tier(d, PROGRESS_NOTE)[2] # None
          /\ _find_calls_with_tier(d, PROGRESS_NOTE)[2].max_minutes >= d
    /\ \A d \in CONSULT_MINIMUM_DURATION..CONSULT_MAXIMUM_DURATION :
          /\ _find_calls_with_tier(d, CONSULT)[1] # 0
          /\ _find_calls_with_tier(d, CONSULT)[2] # None

\* C13: in both categories every duration that passes the bounds checks
\* matches a row: the no-matching-consult-tier error is never raised (its text
\* is shown only for a consult shorter than 61 minutes) and the progress-note
\* fallbacks are never taken, so every result carries a matched tier that is a
\* row of get_billing_table of its category, contains the duration, and has
\* the result's calls, which are positive.
C13_EveryAcceptedDurationMatches ==
    /\ AcceptedDurationsMatch
    /\ current_calculation_result # None
       => /\ current_calculation_result.calls > 0
          /\ current_calculation_result.matched_tier # None
          /\ \E i \in DOMAIN get_billing_table(current_calculation_result.note_type) :
                get_billing_table(current_calculation_result.note_type)[i]
                    = current_calculation_result.matched_tier
          /\ current_calculation_result.matched_tier.calls
                = current_calculation_result.calls
          /\ current_calculation_result.matched_tier.max_minutes
                >= current_calculation_result.duration
          /\ current_calculation_result.note_type = CONSULT
                => current_calculation_result.matched_tier.min_minutes
                      <= current_calculation_result.duration
    /\ (Calculated /\ error_message = NoMatchingConsultTier)
       => /\ selected_note_type = CONSULT
          /\ BothParse(time_input_str)
          /\ TokenMinutes(EndToken(time_input_str))
                - TokenMinutes(StartToken(time_input_str)) < CONSULT_MINIMUM_DURATION

C13_Witness ==
    /\ current_calculation_result # None
    /\ current_calculation_result.note_type = CONSULT
    /\ current_calculation_result.duration = 180
    /\ current_calculation_result.calls = 9
    /\ current_calculation_result.matched_tier = get_billing_table(CONSULT)[9]

(***************************************************************************)
(* C14                                                                     *)
(***************************************************************************)
\* the rows of a category as (threshold of the near-next-tier check, calls):
\* the face-to-face minutes of a progress-note row, the minimum of a consult row
ThresholdRows(note_type) ==
    IF note_type = PROGRESS_NOTE
    THEN [i \in 1..Len(PROGRESS_NOTE_TABLE) |->
            [threshold |-> PROGRESS_NOTE_TABLE[i][2], calls |-> PROGRESS_NOTE_TABLE[i][3]]]
    ELSE [i \in 1..Len(CONSULT_TABLE) |->
            [threshold |-> CONSULT_TABLE[i][1], calls |-> CONSULT_TABLE[i][3]]]

\* start + minutes, written HH:MM with the hour not reduced
ClockText(minutes) == Format02d(minutes \div 60) \o <<":">> \o Format02d(minutes % 60)

NearNextTierWarnings(result) ==
    {i \in 1..Len(result.warnings) : result.warnings[i].warning = "NearNextTier"}

\* the claim, for one result
NearNextTierAsSpecified(result) ==
    LET rows == ThresholdRows(result.note_type)
        higher == {i \in DOMAIN rows : rows[i].calls > result.calls}
        warned == NearNextTierWarnings(result)
    IN  /\ Cardinality(warned) <= 1
        /\ result.calls = (IF result.note_type = PROGRESS_NOTE THEN 12 ELSE 9)
              => (higher = {} /\ warned = {})
        /\ higher = {} => warned = {}
        /\ higher # {}
              => LET row == rows[SetMin(higher)]
                     gap == row.threshold - result.duration
                 IN  /\ warned # {} <=> (0 < gap /\ gap <= 10)
                     /\ \A i \in warned :
                           /\ result.warnings[i].minutes_to_next = gap
                           /\ result.warnings[i].next_calls = row.calls
                           /\ result.warnings[i].current_calls = result.calls
                           /\ result.warnings[i].suggested_end_time
                                 = ClockText(total_minutes(result.start_time) + row.threshold)

\* C14: the near-next-tier check takes the first row, in table order, whose
\* calls exceed the current calls; its threshold is that row's face-to-face
\* minutes (progress note) or minimum (consult); a NearNextTier warning is in
\* the result exactly when 0 < threshold - duration <= 10, and then carries
\* threshold - duration, that row's calls and start + threshold minutes as the
\* suggested end time; at the top calls (12, 9) there is no such warning.
C14_NearNextTierRule ==
    current_calculation_result # None => NearNextTierAsSpecified(current_calculation_result)

C14_Witness ==
    /\ current_calculation_result # None
    /\ current_calculation_result.note_type = PROGRESS_NOTE
    /\ current_calculation_result.duration = 50
    /\ current_calculation_result.start_time = Time(9, 0)
    /\ current_calculation_result.warnings
          = <<NearNextTier(5, 6, 10, <<"1", "0", ":", "0", "0">>)>>

(***************************************************************************)
(* C15                                                                     *)
(***************************************************************************)
\* the rounded start time of the claim, written HH:MM
RoundedStart(h, m) ==
    IF m < 15 THEN ClockText(60 * h)
    ELSE IF m < 45 THEN ClockText(60 * h + 30)
    ELSE ClockText(60 * ((h + 1) % 24))

\* C15: a progress-note result whose start time (h, m) has m outside {0, 30}
\* suggests (h, 00) when m < 15, (h, 30) when 15 <= m < 45 and
\* ((h + 1) mod 24, 00) when m >= 45, so that 23:50 suggests 00:00; the
\* suggested minute is 0 or 30.
C15_RoundedStartSuggestion ==
    (/\ current_calculation_result # None
     /\ current_calculation_result.note_type = PROGRESS_NOTE
     /\ current_calculation_result.start_time.minutes \notin {0, 30})
    => LET warning == FirstWarning(current_calculation_result.warnings,
                                   "StartTimeNotOnHourOrHalfHour")
           start == current_calculation_result.start_time
       IN  /\ warning # None
           /\ warning.suggested_start_time = RoundedStart(start.hours, start.minutes)
           /\ Len(warning.suggested_start_time) = 5
           /\ SubSeq(warning.suggested_start_time, 4, 5) \in {<<"0", "0">>, <<"3", "0">>}
           /\ IsDigit(warning.suggested_start_time[1])
           /\ IsDigit(warning.suggested_start_time[2])
           /\ TwoDigits(warning.suggested_start_time, 1) <= 23
           /\ start = Time(23, 50)
                 => warning.suggested_start_time = <<"0", "0", ":", "0", "0">>

C15_Witness ==
    /\ current_calculation_result # None
    /\ current_calculation_result.note_type = PROGRESS_NOTE
    /\ current_calculation_result.start_time = Time(23, 50)
    /\ FirstWarning(current_calculation_result.warnings, "StartTimeNotOnHourOrHalfHour")
          = StartTimeNotOnHourOrHalfHour(<<"0", "0", ":", "0", "0">>)

(***************************************************************************)
(* C16                                                                     *)
(***************************************************************************)
\* what was typed, for each text of Typed12Inputs
Typed12Of ==
    [text \in Typed12Inputs |->
        CHOOSE p \in [h : 0..MaxHour12, m : Minutes12, colon : BOOLEAN, marker : Markers12] :
            Typed12Range(p.h, p.m, p.colon, p.marker) = text]

\* the conversion of the claim
Hour24(hour12, period) ==
    IF period = "AM" THEN (IF hour12 = 12 THEN 0 ELSE hour12)
    ELSE (IF hour12 = 12 THEN 12 ELSE hour12 + 12)

Text_030AM_100AM ==
    <<"0", ":", "3", "0", " ", "A", "M", "-", "1", ":", "0", "0", " ", "A", "M">>
Text_1300PM_1300PM ==
    <<"1", "3", ":", "0", "0", "P", "M", "-", "1", "3", ":", "0", "0", "P", "M">>

\* C16: a time with an AM/PM marker is accepted only with its hour in 1..12
\* and its minute in 0..59 (0:30 AM and 13:00 PM are invalid times); AM gives
\* hour 0 for 12 and the hour itself otherwise, PM gives 12 for 12 and the
\* hour plus 12 otherwise; the resulting hour lies in 0..23.
C16_TwelveHourRule ==
    /\ (Calculated /\ time_input_str \in Typed12Inputs)
       => LET p == Typed12Of[time_input_str]
          IN  IF p.h \in 1..12 /\ p.m \in 0..59
              THEN /\ error_message # InvalidTime
                   /\ _parse_time(StartToken(time_input_str))
                         = Time(Hour24(p.h, p.marker.period), p.m)
                   /\ Hour24(p.h, p.marker.period) \in 0..23
                   /\ selected_note_type = PROGRESS_NOTE
                         => /\ current_calculation_result # None
                            /\ current_calculation_result.start_time
                                  = Time(Hour24(p.h, p.marker.period), p.m)
                            /\ current_calculation_result.end_time
                                  = Time(Hour24(p.h, p.marker.period), p.m)
              ELSE /\ error_message = InvalidTime
                   /\ current_calculation_result = None
    /\ (Calculated /\ time_input_str \in {Text_030AM_100AM, Text_1300PM_1300PM})
       => (error_message = InvalidTime /\ current_calculation_result = None)

C16_Witness ==
    /\ time_input_str = <<"1", "2", ":", "3", "0", " ", "A", "M", "-",
                          "1", "2", ":", "3", "0", " ", "A", "M">>
    /\ current_calculation_result # None
    /\ current_calculation_result.start_time = Time(0, 30)

(***************************************************************************)
(* C17                                                                     *)
(***************************************************************************)
IsClockTime(t) == t.hours \in 0..23 /\ t.minutes \in 0..59

\* C17: every result has a start and an end that are clock times (hour 0..23,
\* minute 0..59), a duration equal to the end's minutes since midnight minus
\* the start's, and a duration that is not negative; an end before the start
\* is rejected before any tier is looked up, so it never comes with a result.
C17_ResultIsWellFormed ==
    /\ current_calculation_result # None
       => /\ IsClockTime(current_calculation_result.start_time)
          /\ IsClockTime(current_calculation_result.end_time)
          /\ current_calculation_result.duration
                = (60 * current_calculation_result.end_time.hours
                      + current_calculation_result.end_time.minutes)
                  - (60 * current_calculation_result.start_time.hours
                        + current_calculation_result.start_time.minutes)
          /\ current_calculation_result.duration >= 0
          /\ BothParse(time_input_str)
          /\ current_calculation_result.start_time = _parse_time(StartToken(time_input_str))
          /\ current_calculation_result.end_time = _parse_time(EndToken(time_input_str))
    /\ (/\ Calculated
        /\ BothParse(time_input_str)
        /\ TokenMinutes(EndToken(time_input_str)) < TokenMinutes(StartToken(time_input_str)))
       => current_calculation_result = None

C17_Witness ==
    /\ current_calculation_result # None
    /\ current_calculation_result.start_time = Time(22, 0)
    /\ current_calculation_result.end_time = Time(23, 59)
    /\ current_calculation_result.duration = 119

(***************************************************************************)
(* C18                                                                     *)
(***************************************************************************)
OtherNoteType(note_type) == IF note_type = CONSULT THEN PROGRESS_NOTE ELSE CONSULT

\* the errors that do not depend on the category
InputErrors == {InvalidFormat, InvalidTime, StartAfterEnd}

\* the error the order of the claim asks for, "" when no check fails
FirstFailingCheck(s, note_type) ==
    IF SeparatorSearch(s) = None THEN InvalidFormat
    ELSE IF ~BothParse(s) THEN InvalidTime
    ELSE IF TokenMinutes(EndToken(s)) < TokenMinutes(StartToken(s)) THEN StartAfterEnd
    ELSE IF note_type = CONSULT /\ TokenMinutes(EndToken(s)) - TokenMinutes(StartToken(s)) < 61
    THEN BelowConsultMinimum
    ELSE IF TokenMinutes(EndToken(s)) - TokenMinutes(StartToken(s))
               > (IF note_type = CONSULT THEN 180 ELSE 165)
    THEN DurationExceedsMaximum
    ELSE ""

\* C18: of the checks an input fails, the first in the order invalid format,
\* invalid time (of either token), start after end, below the consult minimum,
\* duration above the maximum is the one reported; a consult whose end
\* precedes its start reports start-after-end, not the consult minimum; and
\* the other category reports the same format, time or order error, or none.
C18_FirstFailingCheckReported ==
    Calculated
    => /\ error_message = FirstFailingCheck(time_input_str, selected_note_type)
       /\ (/\ selected_note_type = CONSULT
           /\ BothParse(time_input_str)
           /\ TokenMinutes(EndToken(time_input_str))
                 < TokenMinutes(StartToken(time_input_str)))
          => error_message = StartAfterEnd
       /\ LET other == calculate(time_input_str, OtherNoteType(selected_note_type))
          IN  IF error_message \in InputErrors
              THEN other = CalculationError(error_message)
              ELSE ~(IsError(other) /\ other.error \in InputErrors)

C18_Witness ==
    /\ selected_note_type = CONSULT
    /\ time_input_str = Text_1000_0900
    /\ error_message = StartAfterEnd
    /\ current_calculation_result = None

(***************************************************************************)
(* C19                                                                     *)
(***************************************************************************)
\* C19: the suggested end time of every NearNextTier warning is a clock time
\* of the same day (hour 0..23, minute 0..59: the start's minutes since
\* midnight plus the threshold are at most 1439), so that it parses as an end
\* time when it is calculated again.
C19_SuggestedEndIsClockTime ==
    current_calculation_result # None
    => \A i \in NearNextTierWarnings(current_calculation_result) :
          LET warning == current_calculation_result.warnings[i]
          IN  /\ total_minutes(current_calculation_result.start_time)
                    + current_calculation_result.duration + warning.minutes_to_next <= 1439
              /\ _parse_time(warning.suggested_end_time) # None
              /\ calculate(ExtendedRange(current_calculation_result, warning),
                           current_calculation_result.note_type)
                    # CalculationError(InvalidTime)

(***************************************************************************)
(* C20                                                                     *)
(***************************************************************************)
\* the range _amend_start_time writes for a start-alignment warning
RealignedRange(result, warning) ==
    warning.suggested_start_time \o <<"-">> \o formatted_string(result.end_time)

\* C20: whenever a result carries a start-alignment warning, calculating the
\* suggested start time with the unchanged end time, in the same category,
\* does not fail with start-after-end: the suggested start is not later than
\* the end time.
C20_RealignedStartNotAfterEnd ==
    current_calculation_result # None
    => LET warning == FirstWarning(current_calculation_result.warnings,
                                   "StartTimeNotOnHourOrHalfHour")
       IN  warning # None
           => /\ calculate(RealignedRange(current_calculation_result, warning),
                           current_calculation_result.note_type)
                    # CalculationError(StartAfterEnd)
              /\ TokenMinutes(warning.suggested_start_time)
                    <= total_minutes(current_calculation_result.end_time)

(***************************************************************************)
(* C21                                                                     *)
(***************************************************************************)
\* the accepted suggestions the latest calculation has already taken in: all
\* but the one whose recalculation is still scheduled
CalculatedAmendments ==
    IF after_pending > 0
    THEN SubSeq(accepted_amendments, 1, Len(accepted_amendments) - 1)
    ELSE accepted_amendments

\* C21: when every suggestion offered since the user started a calculation
\* has been accepted, at most one start time and, after it, at most one end
\* time have been amended, and once no recalculation is scheduled the latest
\* calculation has given an error or a result without warnings; and a range
\* whose end was set to the suggested end time gives no NearNextTier warning.
C21_AcceptLoopEnds ==
    /\ ~declined_suggestion
       => /\ accepted_amendments \in {<<>>, <<"start">>, <<"end">>, <<"start", "end">>}
          /\ after_pending = 0
                => \/ current_calculation_result = None
                   \/ current_calculation_result.warnings = <<>>
          /\ (after_pending = 0 /\ accepted_amendments # <<>>)
                => Calculated
    /\ after_pending \in {0, 1}
    /\ after_pending = 1 => accepted_amendments # <<>>
    /\ (/\ CalculatedAmendments # <<>>
        /\ CalculatedAmendments[Len(CalculatedAmendments)] = "end"
        /\ current_calculation_result # None)
       => FirstWarning(current_calculation_result.warnings, "NearNextTier") = None

C21_Witness ==
    /\ ~declined_suggestion
    /\ accepted_amendments = <<"start", "end">>
    /\ after_pending = 0
    /\ current_calculation_result # None
    /\ current_calculation_result.warnings = <<>>

====
